---- MODULE Spec2Model ----
(***************************************************************************)
(* Model of skfda.representation.basis._monomial.Monomial: evaluation,     *)
(* derivative as a change of basis, Gram matrix and basis of a product.    *)
(*                                                                         *)
(* Python objects live on a heap (a sequence, an object's id is its        *)
(* index): Basis objects and coefficient arrays.  Every call is one        *)
(* action; ret records the last call, its arguments and what it returned   *)
(* or raised.  numpy's float results are modelled as exact rationals       *)
(* <<numerator, denominator>> in lowest terms; integers stay integers.     *)
(***************************************************************************)
EXTENDS Integers, Sequences, FiniteSets

VARIABLES heap, ret

vars == <<heap, ret>>

---------------------------------------------------------------------------
(* Bounds of the model *)

\* the largest n_basis a basis is constructed with
MaxN == 3
\* the largest derivative order asked of evaluate and of derivative
MaxOrder == 2
\* the longest list of evaluation points
MaxPoints == 3
\* the longest list of points at which a derivative is compared with evaluate
MaxCheckedPoints == 2
\* a session stops allocating once this many Basis objects exist
MaxBases == 3

PointValues == {0, 1, 2}
CoefValues == {-1, 2}
RowCounts == {1, 2}
Domains == {<<0, 1>>, <<0, 5>>, <<-2, 1>>}
OtherTypes == {"Monomial", "BSpline", "Fourier"}

---------------------------------------------------------------------------
(* Arithmetic helpers *)

Abs(x) == IF x < 0 THEN -x ELSE x

Max(x, y) == IF x >= y THEN x ELSE y

RECURSIVE GCD(_, _)
GCD(x, y) == IF y = 0 THEN x ELSE GCD(y, x % y)

\* integer ** integer as numpy computes it for non-negative exponents (0**0 = 1)
RECURSIVE power(_, _)
power(t, e) == IF e = 0 THEN 1 ELSE t * power(t, e - 1)

\* a float quotient num / den (den > 0), kept exact and in lowest terms
Rat(num, den) ==
    LET g == GCD(Abs(num), den)
    IN  <<num \div g, den \div g>>

Reverse(x) == [i \in 1..Len(x) |-> x[Len(x) - i + 1]]

\* all sequences over S of length 0..n
SeqsUpTo(S, n) == UNION {[1..k -> S] : k \in 0..n}

PointLists == SeqsUpTo(PointValues, MaxPoints)

\* the list of points a session evaluates at: the docstring's
SessionPoints == {<<0, 1, 2>>}

\* the lists of points at which a derivative is compared with evaluate
CheckedPointLists == SeqsUpTo(PointValues, MaxCheckedPoints)

---------------------------------------------------------------------------
(* Objects *)

\* Basis.__init__: a Basis holds a domain range (a list with one interval
\* per dimension) and a positive number of basis functions
BasisInit(type, domain_range, n_basis) ==
    IF n_basis < 1
    THEN [raised |-> "ValidationError"]
    ELSE [raised |-> "",
          obj |-> [type |-> type, domain_range |-> domain_range,
                   n_basis |-> n_basis]]

Monomial(domain_range, n_basis) == BasisInit("Monomial", domain_range, n_basis)

ndarray(data) == [type |-> "ndarray", data |-> data]

IsBasis(o) == o.type # "ndarray"

BasisIds == {i \in 1..Len(heap) : IsBasis(heap[i])}
MonomialIds == {i \in 1..Len(heap) : heap[i].type = "Monomial"}
ArrayIds == {i \in 1..Len(heap) : heap[i].type = "ndarray"}

NoCall ==
    [op |-> "", self |-> 0, other |-> 0, coefs |-> 0, points |-> <<>>,
     order |-> 0, raised |-> "", value |-> <<>>, new |-> <<>>, calls |-> <<>>]

---------------------------------------------------------------------------
(* Monomial._coefs_exps_derivatives and Monomial._evaluate *)

arange(n) == [k \in 1..n |-> k - 1]

\* np.linspace(start, stop, num, dtype=int) for integer vectors start, stop:
\* num rows, row i = start + i * (stop - start) / (num - 1)
linspace(start, stop, num) ==
    [i \in 1..num |->
        [k \in 1..Len(start) |->
            IF num = 1 THEN start[k]
            ELSE start[k] + ((i - 1) * (stop[k] - start[k])) \div (num - 1)]]

\* np.prod(mat, axis=0) of a matrix with ncols columns (1 for no rows)
RECURSIVE prod_axis0(_, _)
prod_axis0(mat, ncols) ==
    IF Len(mat) = 0 THEN [k \in 1..ncols |-> 1]
    ELSE LET rest == prod_axis0(Tail(mat), ncols)
         IN  [k \in 1..ncols |-> mat[1][k] * rest[k]]

_coefs_exps_derivatives_no_plus_one(self, derivative) ==
    LET seq == arange(self.n_basis)
        coef_mat == linspace(seq, [k \in 1..Len(seq) |-> seq[k] - derivative],
                             derivative)
    IN  [coefs |-> prod_axis0(coef_mat, self.n_basis),
         exps |-> [k \in 1..Len(seq) |-> Max(seq[k] - derivative, 0)]]

_coefs_exps_derivatives(self, derivative) ==
    LET seq == arange(self.n_basis)
        coef_mat == linspace(seq,
                             [k \in 1..Len(seq) |-> seq[k] - derivative + 1],
                             derivative)
    IN  [coefs |-> prod_axis0(coef_mat, self.n_basis),
         exps |-> [k \in 1..Len(seq) |-> Max(seq[k] - derivative, 0)]]

\* (coefs * np.power.outer(eval_points, exps)).T
_evaluate(self, eval_points, derivative) ==
    LET ce == _coefs_exps_derivatives(self, derivative)
        raised == [p \in 1..Len(eval_points) |->
                      [k \in 1..Len(ce.exps) |->
                          power(eval_points[p], ce.exps[k])]]
        scaled == [p \in 1..Len(eval_points) |->
                      [k \in 1..Len(ce.exps) |-> ce.coefs[k] * raised[p][k]]]
    IN  [k \in 1..Len(ce.exps) |->
            [p \in 1..Len(eval_points) |-> scaled[p][k]]]

Evaluate(b, eval_points, derivative) ==
    /\ b \in MonomialIds
    /\ ret' = [NoCall EXCEPT !.op = "evaluate", !.self = b,
                             !.points = eval_points, !.order = derivative,
                             !.value = _evaluate(heap[b], eval_points,
                                                 derivative)]
    /\ UNCHANGED heap

---------------------------------------------------------------------------
(* Monomial._gram_matrix *)

\* np.polyint(p): p / arange(len(p), 0, -1), then the constant 0
polyint(p) ==
    [i \in 1..(Len(p) + 1) |->
        IF i <= Len(p) THEN Rat(p[i], Len(p) - i + 1) ELSE Rat(0, 1)]

\* np.vander(x, N): row per element of x, columns x^(N-1) .. x^0
vander(x, N) == [r \in 1..Len(x) |-> [c \in 1..N |-> power(x[r], N - c)]]

\* scipy.linalg.hankel(c, r): c is the first column, r the last row
\* (r[0] is ignored in favour of c[-1])
hankel(c, r) ==
    [i \in 1..Len(c) |->
        [j \in 1..Len(r) |->
            IF i + j - 1 <= Len(c) THEN c[i + j - 1] ELSE r[i + j - Len(c)]]]

\* x[-2::-1]: from the element before the last down to the first
SliceFromPenultimateBackwards(x) ==
    [m \in 1..(Len(x) - 1) |-> x[Len(x) - m]]

ordered_evaluated_points(self) ==
    LET integral_coefs == polyint([k \in 1..(2 * self.n_basis - 1) |-> 1])
        power_domain_limits == vander(self.domain_range[1], 2 * self.n_basis)
        power_domain_limits_diff ==
            [k \in 1..(2 * self.n_basis) |->
                power_domain_limits[2][k] - power_domain_limits[1][k]]
        evaluated_points ==
            [k \in 1..(2 * self.n_basis) |->
                Rat(integral_coefs[k][1] * power_domain_limits_diff[k],
                    integral_coefs[k][2])]
    IN  SliceFromPenultimateBackwards(evaluated_points)

_gram_matrix_short_row(self) ==
    LET ordered == ordered_evaluated_points(self)
    IN  hankel(SubSeq(ordered, 1, self.n_basis),
               SubSeq(ordered, self.n_basis + 1, Len(ordered)))

_gram_matrix_no_barrow(self) ==
    LET integral_coefs == polyint([k \in 1..(2 * self.n_basis - 1) |-> 1])
        power_domain_limits == vander(self.domain_range[1], 2 * self.n_basis)
        evaluated_points ==
            [k \in 1..(2 * self.n_basis) |->
                Rat(integral_coefs[k][1] * power_domain_limits[2][k],
                    integral_coefs[k][2])]
        ordered == SliceFromPenultimateBackwards(evaluated_points)
    IN  hankel(SubSeq(ordered, 1, self.n_basis),
               SubSeq(ordered, self.n_basis, Len(ordered)))

_gram_matrix(self) ==
    LET ordered == ordered_evaluated_points(self)
    IN  hankel(SubSeq(ordered, 1, self.n_basis),
               SubSeq(ordered, self.n_basis, Len(ordered)))

GramMatrix(b) ==
    /\ b \in MonomialIds
    /\ ret' = [NoCall EXCEPT !.op = "gram_matrix", !.self = b,
                             !.value = _gram_matrix(heap[b])]
    /\ UNCHANGED heap

---------------------------------------------------------------------------
(* Specification of the calls that only read a basis *)

InitBasis ==
    /\ \E d \in Domains, n \in 1..MaxN :
          heap = <<Monomial(<<d>>, n).obj>>
    /\ ret = NoCall

\* one call on the basis drawn by InitBasis
NextBasis ==
    /\ ret = NoCall
    /\ \/ \E b \in 1..Len(heap), pts \in PointLists, d \in 0..MaxOrder :
              Evaluate(b, pts, d)
       \/ \E b \in 1..Len(heap) : GramMatrix(b)

SpecBasis == InitBasis /\ [][NextBasis]_vars

---------------------------------------------------------------------------
(* Monomial._derivative *)

\* np.polyder(p, m) on an array p of coefficients, highest degree first:
\*   n = len(p) - 1; y = p[:-1] * arange(n, 0, -1)
\*   return p if m == 0 else polyder(y, m - 1)
RECURSIVE polyder_one_less(_, _)
polyder_one_less(p, m) ==
    LET n == Len(p) - 1
        y == [i \in 1..n |-> p[i] * (n - i)]
    IN  IF m = 0 THEN p ELSE polyder_one_less(y, m - 1)

RECURSIVE polyder(_, _)
polyder(p, m) ==
    LET n == Len(p) - 1
        y == [i \in 1..n |-> p[i] * (n - i + 1)]
    IN  IF m = 0 THEN p ELSE polyder(y, m - 1)

\* the Basis is constructed first (it may raise), then the coefficients
_derivative_not_reversed_back(self, coefs, order) ==
    LET basis == Monomial(self.domain_range, self.n_basis - order)
    IN  IF basis.raised # "" THEN [raised |-> basis.raised]
        ELSE [raised |-> "",
              basis |-> basis.obj,
              coefs |-> [i \in 1..Len(coefs) |->
                            polyder(Reverse(coefs[i]), order)]]

_derivative_first_order_basis(self, coefs, order) ==
    LET basis == Monomial(self.domain_range, self.n_basis - 1)
    IN  IF basis.raised # "" THEN [raised |-> basis.raised]
        ELSE [raised |-> "",
              basis |-> basis.obj,
              coefs |-> [i \in 1..Len(coefs) |->
                            Reverse(polyder(Reverse(coefs[i]), order))]]

_derivative(self, coefs, order) ==
    LET basis == Monomial(self.domain_range, self.n_basis - order)
    IN  IF basis.raised # "" THEN [raised |-> basis.raised]
        ELSE [raised |-> "",
              basis |-> basis.obj,
              coefs |-> [i \in 1..Len(coefs) |->
                            Reverse(polyder(Reverse(coefs[i]), order))]]

\* a coefficient array fits a basis when it has one column per basis function
Fits(c, b) ==
    /\ c \in ArrayIds
    /\ b \in MonomialIds
    /\ \A i \in 1..Len(heap[c].data) : Len(heap[c].data[i]) = heap[b].n_basis

\* as if the basis and the array were changed in place and returned
DerivativeInPlace(b, c, order) ==
    /\ Fits(c, b)
    /\ LET res == _derivative(heap[b], heap[c].data, order)
       IN  IF res.raised # ""
           THEN /\ ret' = [NoCall EXCEPT !.op = "derivative", !.self = b,
                                         !.coefs = c, !.order = order,
                                         !.raised = res.raised]
                /\ UNCHANGED heap
           ELSE /\ heap' = [heap EXCEPT ![b] = res.basis,
                                        ![c] = ndarray(res.coefs)]
                /\ ret' = [NoCall EXCEPT !.op = "derivative", !.self = b,
                                         !.coefs = c, !.order = order,
                                         !.new = <<b, c>>]

Derivative(b, c, order) ==
    /\ Fits(c, b)
    /\ LET res == _derivative(heap[b], heap[c].data, order)
       IN  IF res.raised # ""
           THEN /\ ret' = [NoCall EXCEPT !.op = "derivative", !.self = b,
                                         !.coefs = c, !.order = order,
                                         !.raised = res.raised]
                /\ UNCHANGED heap
           ELSE /\ Cardinality(BasisIds) < MaxBases
                /\ heap' = heap \o <<res.basis, ndarray(res.coefs)>>
                /\ ret' = [NoCall EXCEPT !.op = "derivative", !.self = b,
                                         !.coefs = c, !.order = order,
                                         !.new = <<Len(heap) + 1,
                                                   Len(heap) + 2>>]

---------------------------------------------------------------------------
(* Specification of chains of derivative calls *)

Rows(n) == [1..n -> CoefValues]

Matrices(n) == UNION {[1..r -> Rows(n)] : r \in RowCounts}

InitDeriv ==
    /\ \E d \in Domains, n \in 1..MaxN :
          \E C \in Matrices(n) :
              heap = <<Monomial(<<d>>, n).obj, ndarray(C)>>
    /\ ret = NoCall

\* one call on the basis and the coefficients drawn by InitDeriv
NextDeriv ==
    /\ ret = NoCall
    /\ \E b \in 1..Len(heap), c \in 1..Len(heap), order \in 0..MaxOrder :
          Derivative(b, c, order)

SpecDeriv == InitDeriv /\ [][NextDeriv]_vars

---------------------------------------------------------------------------
(* Monomial.basis_of_product *)

\* _same_domain: the two domain ranges are element-wise equal
_same_domain(one, other) == one.domain_range = other.domain_range

\* other.rbasis_of_product(self) of a basis that is not a Monomial: the
\* collaborating variant's own rule; some Basis, of a size it chooses
other_rbasis_of_product(other, self) ==
    {BasisInit(other.type, other.domain_range, n).obj :
        n \in {Max(other.n_basis, self.n_basis),
               other.n_basis + self.n_basis}}

\* the possible outcomes of self.basis_of_product(other): what is raised,
\* the Basis returned, and the calls made on other
basis_of_product_type_first(self, other) ==
    IF other.type = "Monomial"
    THEN {[raised |-> "", calls |-> <<>>,
           basis |-> Monomial(self.domain_range,
                              self.n_basis + other.n_basis).obj]}
    ELSE IF ~_same_domain(self, other)
    THEN {[raised |-> "ValueError", calls |-> <<>>]}
    ELSE {[raised |-> "", calls |-> <<"rbasis_of_product">>, basis |-> r] :
             r \in other_rbasis_of_product(other, self)}

basis_of_product_tight(self, other) ==
    IF ~_same_domain(self, other)
    THEN {[raised |-> "ValueError", calls |-> <<>>]}
    ELSE IF other.type = "Monomial"
    THEN {[raised |-> "", calls |-> <<>>,
           basis |-> Monomial(self.domain_range,
                              self.n_basis + other.n_basis - 1).obj]}
    ELSE {[raised |-> "", calls |-> <<"rbasis_of_product">>, basis |-> r] :
             r \in other_rbasis_of_product(other, self)}

basis_of_product(self, other) ==
    IF ~_same_domain(self, other)
    THEN {[raised |-> "ValueError", calls |-> <<>>]}
    ELSE IF other.type = "Monomial"
    THEN {[raised |-> "", calls |-> <<>>,
           basis |-> Monomial(self.domain_range,
                              self.n_basis + other.n_basis).obj]}
    ELSE {[raised |-> "", calls |-> <<"rbasis_of_product">>, basis |-> r] :
             r \in other_rbasis_of_product(other, self)}

BasisOfProduct(b, o) ==
    /\ b \in MonomialIds
    /\ o \in BasisIds
    /\ \E out \in basis_of_product(heap[b], heap[o]) :
          IF out.raised # ""
          THEN /\ ret' = [NoCall EXCEPT !.op = "basis_of_product",
                                        !.self = b, !.other = o,
                                        !.raised = out.raised,
                                        !.calls = out.calls]
               /\ UNCHANGED heap
          ELSE /\ Cardinality(BasisIds) < MaxBases
               /\ heap' = Append(heap, out.basis)
               /\ ret' = [NoCall EXCEPT !.op = "basis_of_product",
                                        !.self = b, !.other = o,
                                        !.calls = out.calls,
                                        !.new = <<Len(heap) + 1>>]

---------------------------------------------------------------------------
(* Specification of products of a Monomial with another basis *)

InitProduct ==
    /\ \E d1 \in Domains, n1 \in 1..MaxN, t \in OtherTypes,
          d2 \in Domains, n2 \in 1..MaxN :
          heap = <<Monomial(<<d1>>, n1).obj, BasisInit(t, <<d2>>, n2).obj>>
    /\ ret = NoCall

NextProduct ==
    \E b \in 1..Len(heap), o \in 1..Len(heap) : BasisOfProduct(b, o)

SpecProduct == InitProduct /\ [][NextProduct]_vars

---------------------------------------------------------------------------
(* Specification of sessions that mix all four calls *)

\* the coefficients of the basis functions themselves: the identity matrix
Identity(n) == [i \in 1..n |-> [j \in 1..n |-> IF i = j THEN 1 ELSE 0]]

Init ==
    /\ \E d \in Domains, n \in 1..MaxN :
          heap = <<Monomial(<<d>>, n).obj, ndarray(Identity(n))>>
    /\ ret = NoCall

\* evaluation and Gram matrices are asked of bases of at most MaxN functions
\* (the powers np.vander takes of the domain limits grow with 2 * n_basis)
Small == {b \in 1..Len(heap) : IsBasis(heap[b]) /\ heap[b].n_basis <= MaxN}

Next ==
    \/ \E b \in Small, pts \in SessionPoints, d \in 0..MaxOrder :
          Evaluate(b, pts, d)
    \/ \E b \in 1..Len(heap), c \in 1..Len(heap), order \in 0..MaxOrder :
          Derivative(b, c, order)
    \/ \E b \in Small : GramMatrix(b)
    \/ \E b \in 1..Len(heap), o \in 1..Len(heap) : BasisOfProduct(b, o)

Spec == Init /\ [][Next]_vars

---------------------------------------------------------------------------
(* Mathematics the properties are stated with *)

\* k * (k-1) * ... * (k-d+1); 1 for d = 0, 0 for k < d
RECURSIVE FallingFactorial(_, _)
FallingFactorial(k, d) ==
    IF d = 0 THEN 1 ELSE k * FallingFactorial(k - 1, d - 1)

RECURSIVE Exp(_, _)
Exp(t, e) == IF e = 0 THEN 1 ELSE t * Exp(t, e - 1)

RECURSIVE Dot(_, _)
Dot(u, v) == IF Len(u) = 0 THEN 0 ELSE u[1] * v[1] + Dot(Tail(u), Tail(v))

\* the matrix product A . B of A (rows x k) and B (k x m)
MatMul(A, B, m) ==
    [i \in 1..Len(A) |->
        [p \in 1..m |-> Dot(A[i], [j \in 1..Len(A[i]) |-> B[j][p]])]]

TheDocstringBasis ==
    [type |-> "Monomial", domain_range |-> <<<<0, 5>>>>, n_basis |-> 3]

---------------------------------------------------------------------------
(* C1: evaluate(points, derivative=d) returns the n x m matrix whose entry *)
(* [k][p] is ff(k,d) * t_p^max(k-d,0); rows k < d are zero everywhere; the *)
(* docstring's three results for Monomial((0,5), 3) at [0,1,2] hold.       *)
EvaluateIsClosedForm ==
    ret.op = "evaluate" =>
        LET n == heap[ret.self].n_basis
            m == Len(ret.points)
            d == ret.order
            E == ret.value
        IN  /\ Len(E) = n
            /\ \A k \in 0..(n - 1) :
                  /\ Len(E[k + 1]) = m
                  /\ \A p \in 1..m :
                        /\ E[k + 1][p] = FallingFactorial(k, d)
                                         * Exp(ret.points[p], Max(k - d, 0))
                        /\ k < d => E[k + 1][p] = 0
            /\ (heap[ret.self] = TheDocstringBasis /\ ret.points = <<0, 1, 2>>)
                  => /\ d = 0 => E = <<<<1, 1, 1>>, <<0, 1, 2>>, <<0, 1, 4>>>>
                     /\ d = 1 => E = <<<<0, 0, 0>>, <<1, 1, 1>>, <<0, 2, 4>>>>
                     /\ d = 2 => E = <<<<0, 0, 0>>, <<0, 0, 0>>, <<2, 2, 2>>>>

EvaluateSecondDerivativeSeen ==
    /\ ret.op = "evaluate"
    /\ heap[ret.self] = TheDocstringBasis
    /\ ret.points = <<0, 1, 2>>
    /\ ret.order = 2
    /\ ret.value = <<<<0, 0, 0>>, <<0, 0, 0>>, <<2, 2, 2>>>>

(* C2: after (B', C') = B.derivative(C, order=r) with 1 <= r < n, for      *)
(* every list of points C' . B'.evaluate(points) equals                    *)
(* C . B.evaluate(points, derivative=r), entry by entry.                   *)
DerivativeAgreesWithEvaluate ==
    (/\ ret.op = "derivative"
     /\ 1 <= ret.order
     /\ ret.order < heap[ret.self].n_basis)
    => /\ ret.raised = ""
       /\ \A pts \in CheckedPointLists :
             MatMul(heap[ret.new[2]].data,
                    _evaluate(heap[ret.new[1]], pts, 0), Len(pts))
             = MatMul(heap[ret.coefs].data,
                      _evaluate(heap[ret.self], pts, ret.order), Len(pts))

DerivativeThenEvaluateSeen ==
    /\ ret.op = "derivative"
    /\ ret.order = 2
    /\ heap[ret.self].n_basis = 3
    /\ heap[ret.coefs].data = <<<<2, -1, 2>>, <<-1, 2, -1>>>>
    /\ MatMul(heap[ret.new[2]].data,
              _evaluate(heap[ret.new[1]], <<0, 2>>, 0), 2)
       = <<<<4, 4>>, <<-2, -2>>>>

(* C3: derivative(C, order=r) with 1 <= r < n returns a Monomial over the  *)
(* same domain with n - r functions and, row by row, the coefficients      *)
(* (j+r)(j+r-1)...(j+1) * C[i][j+r] for j = 0..n-r-1.                      *)
DerivativeCoefficients ==
    (/\ ret.op = "derivative"
     /\ 1 <= ret.order
     /\ ret.order < heap[ret.self].n_basis)
    => /\ ret.raised = ""
       /\ LET self == heap[ret.self]
              C == heap[ret.coefs].data
              r == ret.order
              B1 == heap[ret.new[1]]
              C1 == heap[ret.new[2]].data
          IN  /\ B1.type = "Monomial"
              /\ B1.domain_range = self.domain_range
              /\ B1.n_basis = self.n_basis - r
              /\ Len(C1) = Len(C)
              /\ \A i \in 1..Len(C) :
                    /\ Len(C1[i]) = self.n_basis - r
                    /\ \A j \in 0..(self.n_basis - r - 1) :
                          C1[i][j + 1]
                          = FallingFactorial(j + r, r) * C[i][j + r + 1]

DerivativeOfTwoRowsSeen ==
    /\ ret.op = "derivative"
    /\ ret.order = 1
    /\ heap[ret.self].n_basis = 3
    /\ heap[ret.coefs].data = <<<<2, -1, 2>>, <<-1, 2, -1>>>>
    /\ heap[ret.new[2]].data = <<<<-1, 4>>, <<2, -2>>>>
    /\ heap[ret.new[1]].n_basis = 2

(* C4: gram_matrix() of a Monomial of size n over [a, b] is the n x n      *)
(* matrix with entry [i][j] = (b^(i+j+1) - a^(i+j+1)) / (i+j+1); over      *)
(* [0,1] with n = 3 it is [[1,1/2,1/3],[1/2,1/3,1/4],[1/3,1/4,1/5]].       *)
GramIsClosedForm ==
    ret.op = "gram_matrix" =>
        LET n == heap[ret.self].n_basis
            a == heap[ret.self].domain_range[1][1]
            b == heap[ret.self].domain_range[1][2]
            G == ret.value
        IN  /\ Len(G) = n
            /\ \A i \in 0..(n - 1) :
                  /\ Len(G[i + 1]) = n
                  /\ \A j \in 0..(n - 1) :
                        /\ G[i + 1][j + 1][2] > 0
                        /\ G[i + 1][j + 1][1] * (i + j + 1)
                           = (Exp(b, i + j + 1) - Exp(a, i + j + 1))
                             * G[i + 1][j + 1][2]
            /\ (a = 0 /\ b = 1 /\ n = 3)
                  => G = << << <<1, 1>>, <<1, 2>>, <<1, 3>> >>,
                            << <<1, 2>>, <<1, 3>>, <<1, 4>> >>,
                            << <<1, 3>>, <<1, 4>>, <<1, 5>> >> >>

GramHilbertSeen ==
    /\ ret.op = "gram_matrix"
    /\ heap[ret.self].domain_range = <<<<0, 1>>>>
    /\ heap[ret.self].n_basis = 3
    /\ ret.value[3][3] = <<1, 5>>

(* C5: gram_matrix() is square of shape (n, n), symmetric and Hankel: its  *)
(* entries with equal i + j are equal, all taken from one sequence of      *)
(* 2n - 1 values indexed by i + j.                                         *)
GramIsSymmetricHankel ==
    ret.op = "gram_matrix" =>
        LET n == heap[ret.self].n_basis
            G == ret.value
        IN  /\ Len(G) = n
            /\ \A i \in 1..n : Len(G[i]) = n
            /\ \A i, j \in 1..n : G[i][j] = G[j][i]
            /\ \A i, j, k, l \in 1..n : i + j = k + l => G[i][j] = G[k][l]
            /\ LET values == [m \in 0..(2 * n - 2) |->
                                 IF m < n THEN G[1][m + 1]
                                 ELSE G[m - n + 2][n]]
               IN  \A i \in 1..Len(G) : \A j \in 1..Len(G[i]) :
                       G[i][j] = values[i + j - 2]

GramOverNegativeStartSeen ==
    /\ ret.op = "gram_matrix"
    /\ heap[ret.self].domain_range = <<<<-2, 1>>>>
    /\ heap[ret.self].n_basis = 3
    /\ ret.value[1][3] = <<3, 1>>
    /\ ret.value[2][2] = <<3, 1>>
    /\ ret.value[3][1] = <<3, 1>>
    /\ ret.value[1][2] = <<-3, 2>>

(* C6: the product of two Monomials of sizes n1 and n2 over one domain is  *)
(* a new Monomial over that domain with n1 + n2 functions, in both operand *)
(* orders, which is at least the n1 + n2 - 1 the products need.            *)
ProductOfMonomials ==
    (/\ ret.op = "basis_of_product"
     /\ heap[ret.other].type = "Monomial"
     /\ heap[ret.self].domain_range = heap[ret.other].domain_range)
    => /\ ret.raised = ""
       /\ Len(ret.new) = 1
       /\ LET self == heap[ret.self]
              other == heap[ret.other]
              P == heap[ret.new[1]]
          IN  /\ P.type = "Monomial"
              /\ P.domain_range = self.domain_range
              /\ P.n_basis = self.n_basis + other.n_basis
              /\ P.n_basis >= self.n_basis + other.n_basis - 1
              /\ \A out \in basis_of_product(other, self) :
                    /\ out.raised = ""
                    /\ out.basis.type = "Monomial"
                    /\ out.basis.n_basis = P.n_basis
                    /\ out.basis.domain_range = P.domain_range

ProductOfSizesTwoAndThreeSeen ==
    /\ ret.op = "basis_of_product"
    /\ heap[ret.self].type = "Monomial"
    /\ heap[ret.other].type = "Monomial"
    /\ heap[ret.self].n_basis = 2
    /\ heap[ret.other].n_basis = 3
    /\ ret.raised = ""
    /\ heap[ret.new[1]].n_basis = 5

(* C7: basis_of_product raises ValueError whenever the two domains differ, *)
(* whatever the variant of other, before anything else: nothing is         *)
(* constructed or returned and other.rbasis_of_product is not called; the  *)
(* call is delegated only when the domains agree and other is no Monomial. *)
DomainIsCheckedFirst ==
    [][ret'.op = "basis_of_product" =>
          LET self == heap[ret'.self]
              other == heap[ret'.other]
              differ == self.domain_range # other.domain_range
          IN  /\ differ => /\ ret'.raised = "ValueError"
                           /\ ret'.new = <<>>
                           /\ ret'.calls = <<>>
                           /\ heap' = heap
              /\ ret'.calls # <<>> <=> (~differ /\ other.type # "Monomial")
              /\ ret'.calls # <<>> => ret'.calls = <<"rbasis_of_product">>
              /\ ~differ => ret'.raised = ""]_vars

ProductAcrossDomainsRaisedSeen ==
    /\ ret.op = "basis_of_product"
    /\ heap[ret.other].type = "Monomial"
    /\ heap[ret.self].domain_range # heap[ret.other].domain_range
    /\ ret.raised = "ValueError"
    /\ Len(heap) = 2

(* C8: derivative of order r followed, on the basis and coefficients it    *)
(* returned, by derivative of order s gives the basis and the coefficients *)
(* of one derivative of order r + s, whenever r + s < n.                   *)
DerivativeComposes ==
    [][(/\ ret.op = "derivative"
        /\ ret.raised = ""
        /\ ret'.op = "derivative"
        /\ ret'.self = ret.new[1]
        /\ ret'.coefs = ret.new[2]
        /\ ret.order + ret'.order < heap[ret.self].n_basis)
       => /\ ret'.raised = ""
          /\ LET once == _derivative(heap[ret.self], heap[ret.coefs].data,
                                     ret.order + ret'.order)
             IN  /\ once.raised = ""
                 /\ heap'[ret'.new[1]] = once.basis
                 /\ heap'[ret'.new[2]].data = once.coefs]_vars

DerivativeTwiceSeen ==
    /\ ret.op = "derivative"
    /\ ret.self = 3
    /\ ret.coefs = 4
    /\ ret.order = 1
    /\ heap[1].n_basis = 3
    /\ heap[2].data = Identity(3)
    /\ heap[3].n_basis = 2
    /\ heap[4].data = <<<<0, 0>>, <<1, 0>>, <<0, 2>>>>
    /\ ret.new = <<5, 6>>
    /\ heap[5].n_basis = 1
    /\ heap[6].data = <<<<0>>, <<0>>, <<2>>>>

(* C9: no call changes an object that existed before it: the basis, the    *)
(* other operand and the coefficient array keep their contents, and what   *)
(* derivative and basis_of_product return is newly allocated.              *)
InputsAreNeverModified ==
    [][/\ Len(heap') >= Len(heap)
       /\ \A i \in 1..Len(heap) : heap'[i] = heap[i]
       /\ \A k \in 1..Len(ret'.new) : ret'.new[k] > Len(heap)
       /\ (ret'.op = "derivative" /\ ret'.raised = "")
             => /\ Len(ret'.new) = 2
                /\ heap'[ret'.new[1]].type = "Monomial"
                /\ heap'[ret'.new[2]].type = "ndarray"
       /\ (ret'.op = "basis_of_product" /\ ret'.raised = "")
             => /\ Len(ret'.new) = 1
                /\ IsBasis(heap'[ret'.new[1]])]_vars

InputsKeptAfterDerivativeSeen ==
    /\ ret.op = "derivative"
    /\ ret.self = 1
    /\ ret.coefs = 2
    /\ ret.order = 1
    /\ ret.new = <<4, 5>>
    /\ heap[1].n_basis = 3
    /\ heap[2].data = Identity(3)
    /\ heap[3].n_basis = 6
    /\ heap[4].n_basis = 2

(* C10: every Basis reached from a Monomial by derivative and              *)
(* basis_of_product calls has n_basis >= 1 and the domain it was derived   *)
(* from, and derivative with order >= n_basis does not fail.               *)
DerivativeNeverFails ==
    /\ \A i \in BasisIds :
          /\ heap[i].n_basis >= 1
          /\ heap[i].domain_range = heap[1].domain_range
    /\ ret.op = "derivative" => ret.raised = ""

====
